---- MODULE Spec2Model ----
(***************************************************************************)
(* A model of the agentos component system: Component.run and the         *)
(* instantiation protocol Component._get_instance (component.py), the     *)
(* registry lookup and write paths (registry.py, Component.to_registry)   *)
(* and the loader Component.from_registry.                                *)
(*                                                                         *)
(* Seven specifications share the module.  SpecInst drives run() and      *)
(* get_instance() over a dependency graph, SpecReg drives the registry    *)
(* lookups and writes, SpecLoad drives from_registry, SpecParams drives   *)
(* ParameterSet and the identity of RunCommand, SpecDeps drives           *)
(* to_dependency_list, SpecFreeze drives to_frozen_registry and           *)
(* SpecRunLog drives Run.log_return_value.  Each leaves the variables of  *)
(* the others at their initial values.                                    *)
(*                                                                         *)
(* The tracking backend (MLflow), the file system and the dynamic class   *)
(* loader are the environment: a call into them either succeeds or        *)
(* raises.  Calls between the modules of the package are followed at the  *)
(* callee's documented signature (Run.from_run_command is the classmethod *)
(* of run.py:294, get_component_spec_by_id returns the flattened spec of  *)
(* registry.py:142-149, a Repo has the identifier that to_spec reads).    *)
(***************************************************************************)
EXTENDS Integers, Sequences, FiniteSets, TLC

None == "None"
\* Run ids start at 1; a Component with no active run holds NoRun.
NoRun == 0

\* The empty dict.
EmptyMap == [k \in {} |-> None]
\* dict.get(key, {}) / Map.get(key, {})
Get(d, k) == IF k \in DOMAIN d THEN d[k] ELSE EmptyMap

\* What calling a method of immutables.Map on the class itself raises: the
\* compiled Map refuses the receiver (TypeError), the pure Python Map fails
\* on its first attribute access (AttributeError).
MapClassErrors == {"TypeError", "AttributeError"}

\* ------------------------------------------------------------------------
\* Bounds
\* ------------------------------------------------------------------------

\* Top-level calls (run or get_instance) made by the embedding program.
MaxCalls == 2
\* Calls of Component.run in one behaviour, nested calls included.
MaxRuns == 3
\* Python's limit on nested calls: a call deeper than this raises
\* RecursionError.
RecursionLimit == 6

\* ------------------------------------------------------------------------
\* Component graphs (inputs of SpecInst)
\* ------------------------------------------------------------------------

Comps == {"A", "B", "C", "D"}
Classes == {"KA", "KB", "KC", "KD"}

NoDeps == [c \in Comps |-> << >>]

\* A depends on B and C, B and C both depend on D.
DiamondDeps == [NoDeps EXCEPT !["A"] = <<"B", "C">>, !["B"] = <<"D">>, !["C"] = <<"D">>]
\* A depends on B and B depends on A.
CycleDeps == [NoDeps EXCEPT !["A"] = <<"B">>, !["B"] = <<"A">>]
\* A depends on B, B on D.
ChainDeps == [NoDeps EXCEPT !["A"] = <<"B">>, !["B"] = <<"D">>]

OwnClass == [c \in Comps |->
    CASE c = "A" -> "KA" [] c = "B" -> "KB" [] c = "C" -> "KC" [] OTHER -> "KD"]
\* A and its dependency B manage the same class.
SharedClass == [OwnClass EXCEPT !["B"] = "KA"]

Graphs ==
    { [name |-> "diamond", dependencies |-> DiamondDeps, managed_cls |-> OwnClass],
      [name |-> "cycle", dependencies |-> CycleDeps, managed_cls |-> OwnClass],
      [name |-> "chain", dependencies |-> ChainDeps, managed_cls |-> OwnClass],
      [name |-> "shared_class", dependencies |-> ChainDeps, managed_cls |-> SharedClass],
      [name |-> "single", dependencies |-> NoDeps, managed_cls |-> OwnClass] }

\* Parameter sets handed to run/get_instance.  is_map is FALSE for the
\* ParameterSet built when the caller passes no params (component.py:213-217
\* and 253): parameter_set.py:18 leaves the class Map in _parameters.
ParamSets ==
    { [is_map |-> FALSE, mapping |-> EmptyMap],
      [is_map |-> TRUE,
       mapping |-> ("A" :> ("fn" :> ("input" :> "hi")))],
      [is_map |-> TRUE,
       mapping |-> ("A" :> ("__init__" :> ("x" :> "1") @@ "fn" :> ("input" :> "hi")))
                   @@ ("B" :> ("__init__" :> ("x" :> "1")))] }

\* ParameterSet.get_function_params on a ParameterSet that holds a Map.
ParamsOf(p, component_name, function_name) ==
    Get(Get(p.mapping, component_name), function_name)

\* What an entry point returns (Python values, by their repr).
RetVals == {"None", "0", "(1, 'hi')"}

\* The components the embedding program calls run/get_instance on.
Roots == {"A", "B"}

\* run()'s entry_point, publish_to and log_return_value arguments.
RunOptions ==
    { [entry_point |-> "fn", publish |-> FALSE, log |-> TRUE],
      [entry_point |-> "fn", publish |-> TRUE, log |-> TRUE],
      [entry_point |-> "fn", publish |-> FALSE, log |-> FALSE] }

VARIABLES
    \* --- SpecInst ---
    graph,          \* name of the graph under test
    dependencies,   \* Component.dependencies: component -> ordered deps
    managed_cls,    \* Component._managed_cls
    active_run,     \* Component.active_run: run id or NoRun
    cls_init,       \* the __init__ currently installed on each class
    stack,          \* the Python call stack (run and _get_instance frames)
    instantiated,   \* the memo of one get_instance call: name -> instance
    instances,      \* the instances allocated by the current call
    allocs,         \* per component: bodies of _get_instance executed
    ctor_calls,     \* per component: real constructor invocations
    runs,           \* the Run objects opened so far
    published,      \* runs published to a registry
    outcome,        \* how the last top-level call ended
    calls,          \* top-level calls made
    \* --- SpecReg ---
    registry,       \* InMemoryRegistry._registry
    last,           \* the last registry operation and its result
    \* --- SpecLoad ---
    load,           \* the state of one Component.from_registry call
    \* --- SpecParams ---
    pheap,          \* the per-component dicts of parameter mappings, by address
    psrc,           \* per ParameterSet: the mapping its caller passed
    pobj,           \* the ParameterSet objects: ParameterSet._parameters
    pupdates,       \* ParameterSet.update calls made
    plast,          \* the last ParameterSet / RunCommand operation
    \* --- SpecDeps ---
    dl,             \* the state of one Component.to_dependency_list call
    \* --- SpecFreeze ---
    frz,            \* the to_frozen_registry call: arguments, position, result
    fheap,          \* the Component objects, by address
    frepos,         \* the Repo objects, by address
    fstack,         \* the frames of _get_versioned_dependency_dag
    fwarn,          \* the warnings printed, as << component, message >>
    \* --- SpecRunLog ---
    rl              \* one Run object and the log_return_value calls made on it

instVars == << graph, dependencies, managed_cls, active_run, cls_init, stack,
               instantiated, instances, allocs, ctor_calls, runs, published,
               outcome, calls >>
regVars == << registry, last >>
loadVars == << load >>
psVars == << pheap, psrc, pobj, pupdates, plast >>
depVars == << dl >>
frzVars == << frz, fheap, frepos, fstack, fwarn >>
rlVars == << rl >>
vars == << instVars, regVars, loadVars, psVars, depVars, frzVars, rlVars >>

\* What the actions of one specification leave alone.
notInstVars == << regVars, loadVars, psVars, depVars, frzVars, rlVars >>
notRegVars == << instVars, loadVars, psVars, depVars, frzVars, rlVars >>
notLoadVars == << instVars, regVars, psVars, depVars, frzVars, rlVars >>
notPsVars == << instVars, regVars, loadVars, depVars, frzVars, rlVars >>
notDepVars == << instVars, regVars, loadVars, psVars, frzVars, rlVars >>
notFrzVars == << instVars, regVars, loadVars, psVars, depVars, rlVars >>
notRlVars == << instVars, regVars, loadVars, psVars, depVars, frzVars >>

\* ------------------------------------------------------------------------
\* Component.run and Component._get_instance
\* ------------------------------------------------------------------------

Top == stack[Len(stack)]
Pop == SubSeq(stack, 1, Len(stack) - 1)
SetTop(f) == [stack EXCEPT ![Len(stack)] = f]

NoOutcome == [op |-> None, comp |-> None, kind |-> None, value |-> 0]

InstFrame(c, p) ==
    [kind |-> "inst", comp |-> c, pc |-> "enter", i |-> 1, inst |-> 0,
     save_init |-> None, run |-> 0, params |-> p, publish |-> FALSE,
     log |-> FALSE, res |-> None, entry_point |-> None, kwargs |-> EmptyMap]

RunFrame(c, p, o) ==
    [kind |-> "run", comp |-> c, pc |-> "check", i |-> 0, inst |-> 0,
     save_init |-> None, run |-> 0, params |-> p, publish |-> o.publish,
     log |-> o.log, res |-> None, entry_point |-> o.entry_point,
     kwargs |-> EmptyMap]

NewInstance(c) ==
    [comp |-> c, attrs |-> [d \in Comps |-> 0], component |-> None,
     constructed |-> FALSE, init_kwargs |-> EmptyMap]

\* An exception nobody catches: run() and _get_instance() have no handler,
\* so every frame is left and the caller of the top-level call sees it.
Raise(kind) ==
    /\ stack' = << >>
    /\ outcome' = [op |-> stack[1].kind, comp |-> stack[1].comp,
                   kind |-> kind, value |-> 0]

\* A frame returns val to its caller: the caller of the top-level call, the
\* _get_instance frame that attaches it (setattr, component.py:267), the
\* run frame that asked for the instance (component.py:221), or the entry
\* point that re-entered run().
ReturnValue(val, insts) ==
    IF Len(stack) = 1
    THEN /\ stack' = << >>
         /\ outcome' = [op |-> Top.kind, comp |-> Top.comp, kind |-> "ok",
                        value |-> val]
         /\ instances' = insts
    ELSE LET parent == stack[Len(stack) - 1] IN
         /\ outcome' = outcome
         /\ IF parent.kind = "inst"
            THEN /\ stack' = [Pop EXCEPT ![Len(stack) - 1] = [parent EXCEPT !.i = @ + 1]]
                 /\ instances' = [insts EXCEPT ![parent.inst].attrs[Top.comp] = val]
            ELSE IF Top.kind = "inst"
            THEN /\ stack' = [Pop EXCEPT ![Len(stack) - 1] =
                                  [parent EXCEPT !.inst = val, !.pc = "params"]]
                 /\ instances' = insts
            ELSE /\ stack' = Pop
                 /\ instances' = insts

InstInit ==
    /\ \E g \in Graphs :
          /\ graph = g.name
          /\ dependencies = g.dependencies
          /\ managed_cls = g.managed_cls
    /\ active_run = [c \in Comps |-> NoRun]
    /\ cls_init = [k \in Classes |-> "real"]
    /\ stack = << >>
    /\ instantiated = [c \in Comps |-> 0]
    /\ instances = << >>
    /\ allocs = [c \in Comps |-> 0]
    /\ ctor_calls = [c \in Comps |-> 0]
    /\ runs = << >>
    /\ published = {}
    /\ outcome = NoOutcome
    /\ calls = 0

InstIdle ==
    /\ graph = None
    /\ dependencies = NoDeps
    /\ managed_cls = OwnClass
    /\ active_run = [c \in Comps |-> NoRun]
    /\ cls_init = [k \in Classes |-> "real"]
    /\ stack = << >>
    /\ instantiated = [c \in Comps |-> 0]
    /\ instances = << >>
    /\ allocs = [c \in Comps |-> 0]
    /\ ctor_calls = [c \in Comps |-> 0]
    /\ runs = << >>
    /\ published = {}
    /\ outcome = NoOutcome
    /\ calls = 0

\* get_instance (component.py:251-254): a fresh memo for this call.
StartGetInstance(c, p, base) ==
    /\ instantiated' = [d \in Comps |-> 0]
    /\ instances' = << >>
    /\ allocs' = [d \in Comps |-> 0]
    /\ ctor_calls' = [d \in Comps |-> 0]
    /\ stack' = Append(base, InstFrame(c, p))

\* The embedding program calls component.get_instance(params).
CallGetInstance(c, p) ==
    /\ stack = << >>
    /\ calls < MaxCalls
    /\ calls' = calls + 1
    /\ StartGetInstance(c, p, << >>)
    /\ outcome' = NoOutcome
    /\ UNCHANGED notInstVars
    /\ UNCHANGED << graph, dependencies, managed_cls, active_run, cls_init,
                    runs, published >>

\* The embedding program calls component.run(entry_point, params, ...).
CallRun(c, p, o) ==
    /\ stack = << >>
    /\ calls < MaxCalls
    /\ Len(runs) < MaxRuns
    /\ calls' = calls + 1
    /\ stack' = << RunFrame(c, p, o) >>
    /\ outcome' = NoOutcome
    /\ UNCHANGED notInstVars
    /\ UNCHANGED << graph, dependencies, managed_cls, active_run, cls_init,
                    instantiated, instances, allocs, ctor_calls, runs,
                    published >>

\* A _get_instance that never finds its component in the memo table:
\* component.py:257-258 left out.
MemoNever(c) == FALSE

\* component.py:257: the memo is keyed by the component's name.
MemoHit(c) == instantiated[c] # 0

\* component.py:257-261: return the memoised instance, or save the class's
\* __init__, install the no-op lambda and allocate the instance with it.
InstEnter ==
    /\ stack # << >> /\ Top.kind = "inst" /\ Top.pc = "enter"
    /\ LET c == Top.comp
           k == managed_cls[c]
       IN IF MemoHit(c)
          THEN /\ ReturnValue(instantiated[c], instances)
               /\ UNCHANGED << cls_init, allocs >>
          ELSE /\ cls_init' = [cls_init EXCEPT ![k] = "noop"]
               /\ instances' = Append(instances, NewInstance(c))
               /\ allocs' = [allocs EXCEPT ![c] = @ + 1]
               /\ stack' = SetTop([Top EXCEPT !.pc = "deps",
                                              !.inst = Len(instances) + 1,
                                              !.save_init = cls_init[k]])
               /\ UNCHANGED outcome
    /\ UNCHANGED notInstVars
    /\ UNCHANGED << graph, dependencies, managed_cls, active_run,
                    instantiated, ctor_calls, runs, published, calls >>

\* component.py:262-266: the next dependency's _get_instance is called; a
\* call deeper than the interpreter allows raises RecursionError.
InstDep ==
    /\ stack # << >> /\ Top.kind = "inst" /\ Top.pc = "deps"
    /\ Top.i <= Len(dependencies[Top.comp])
    /\ IF Len(stack) >= RecursionLimit
       THEN Raise("RecursionError")
       ELSE /\ stack' = Append(stack, InstFrame(dependencies[Top.comp][Top.i],
                                                Top.params))
            /\ UNCHANGED outcome
    /\ UNCHANGED notInstVars
    /\ UNCHANGED << graph, dependencies, managed_cls, active_run, cls_init,
                    instantiated, instances, allocs, ctor_calls, runs,
                    published, calls >>

\* component.py:268-269: attach the back-reference, put back the saved
\* __init__.
InstWire ==
    /\ stack # << >> /\ Top.kind = "inst" /\ Top.pc = "deps"
    /\ Top.i > Len(dependencies[Top.comp])
    /\ instances' = [instances EXCEPT ![Top.inst].component = Top.comp]
    /\ cls_init' = [cls_init EXCEPT ![managed_cls[Top.comp]] = Top.save_init]
    /\ stack' = SetTop([Top EXCEPT !.pc = "init"])
    /\ UNCHANGED notInstVars
    /\ UNCHANGED << graph, dependencies, managed_cls, active_run,
                    instantiated, allocs, ctor_calls, runs, published,
                    outcome, calls >>

\* component.py:270 with 236-240: getattr(instance, "__init__") finds what
\* is installed on the class now; the component's "__init__" parameters
\* are looked up in the ParameterSet (which raises when it holds the class
\* Map) and the function is called with them.  The real constructor returns
\* or raises; the no-op lambda takes no keyword and raises TypeError when
\* given one.
InstCtor ==
    /\ stack # << >> /\ Top.kind = "inst" /\ Top.pc = "init"
    /\ LET c == Top.comp
           fn_params == ParamsOf(Top.params, c, "__init__")
       IN
       IF ~Top.params.is_map
       THEN /\ \E e \in MapClassErrors : Raise(e)
            /\ UNCHANGED << ctor_calls, instances >>
       ELSE IF cls_init[managed_cls[c]] = "real"
       THEN /\ ctor_calls' = [ctor_calls EXCEPT ![c] = @ + 1]
            /\ \/ /\ instances' = [instances EXCEPT ![Top.inst].constructed = TRUE,
                                                     ![Top.inst].init_kwargs = fn_params]
                  /\ stack' = SetTop([Top EXCEPT !.pc = "memo"])
                  /\ UNCHANGED outcome
               \/ /\ Raise("ConstructorError")
                  /\ UNCHANGED instances
       ELSE /\ UNCHANGED << ctor_calls, instances >>
            /\ IF fn_params # EmptyMap
               THEN Raise("TypeError")
               ELSE /\ stack' = SetTop([Top EXCEPT !.pc = "memo"])
                    /\ UNCHANGED outcome
    /\ UNCHANGED notInstVars
    /\ UNCHANGED << graph, dependencies, managed_cls, active_run, cls_init,
                    instantiated, allocs, runs, published, calls >>

\* component.py:271-272: memoise under the component's name and return.
InstMemo ==
    /\ stack # << >> /\ Top.kind = "inst" /\ Top.pc = "memo"
    /\ instantiated' = [instantiated EXCEPT ![Top.comp] = Top.inst]
    /\ ReturnValue(Top.inst, instances)
    /\ UNCHANGED notInstVars
    /\ UNCHANGED << graph, dependencies, managed_cls, active_run, cls_init,
                    allocs, ctor_calls, runs, published, calls >>

\* A run() that never finds an active run: component.py:209 left out.
NoActiveRunCheck(c) == FALSE

\* component.py:209: the single-active-run check.
HasActiveRun(c) == active_run[c] # NoRun

\* component.py:209-212.
RunCheck ==
    /\ stack # << >> /\ Top.kind = "run" /\ Top.pc = "check"
    /\ IF HasActiveRun(Top.comp)
       THEN Raise("AssertionError")
       ELSE /\ stack' = SetTop([Top EXCEPT !.pc = "open"])
            /\ UNCHANGED outcome
    /\ UNCHANGED notInstVars
    /\ UNCHANGED << graph, dependencies, managed_cls, active_run, cls_init,
                    instantiated, instances, allocs, ctor_calls, runs,
                    published, calls >>

\* A run() that does not record its Run before instantiating.
NotRecorded(run) == NoRun

\* component.py:220: self.active_run = run.
Recorded(run) == run

\* component.py:218-220: the RunCommand and the Run are created (the
\* tracking backend may refuse) and the Run becomes the active run.
RunOpen ==
    /\ stack # << >> /\ Top.kind = "run" /\ Top.pc = "open"
    /\ \/ /\ runs' = Append(runs, [run_command |-> [component |-> Top.comp,
                                                    entry_point |-> Top.entry_point],
                                    return_value |-> None])
          /\ active_run' = [active_run EXCEPT ![Top.comp] = Recorded(Len(runs) + 1)]
          /\ stack' = SetTop([Top EXCEPT !.pc = "instantiate", !.run = Len(runs) + 1])
          /\ UNCHANGED outcome
       \/ /\ Raise("TrackingError")
          /\ UNCHANGED << runs, active_run >>
    /\ UNCHANGED notInstVars
    /\ UNCHANGED << graph, dependencies, managed_cls, cls_init, instantiated,
                    instances, allocs, ctor_calls, published, calls >>

\* component.py:221.
RunInstantiate ==
    /\ stack # << >> /\ Top.kind = "run" /\ Top.pc = "instantiate"
    /\ IF Len(stack) >= RecursionLimit
       THEN /\ Raise("RecursionError")
            /\ UNCHANGED << instantiated, instances, allocs, ctor_calls >>
       ELSE /\ StartGetInstance(Top.comp, Top.params, stack)
            /\ UNCHANGED outcome
    /\ UNCHANGED notInstVars
    /\ UNCHANGED << graph, dependencies, managed_cls, active_run, cls_init,
                    runs, published, calls >>

\* component.py:222 with 236-240: the entry point's parameters are looked
\* up in the ParameterSet.
EntryParams ==
    /\ stack # << >> /\ Top.kind = "run" /\ Top.pc = "params"
    /\ IF ~Top.params.is_map
       THEN \E e \in MapClassErrors : Raise(e)
       ELSE /\ stack' = SetTop([Top EXCEPT !.pc = "call",
                                  !.kwargs = ParamsOf(Top.params, Top.comp, Top.entry_point)])
            /\ UNCHANGED outcome
    /\ UNCHANGED notInstVars
    /\ UNCHANGED << graph, dependencies, managed_cls, active_run, cls_init,
                    instantiated, instances, allocs, ctor_calls, runs,
                    published, calls >>

\* component.py:222: the entry point returns a value ...
EntryReturn(v) ==
    /\ stack # << >> /\ Top.kind = "run" /\ Top.pc = "call"
    /\ stack' = SetTop([Top EXCEPT !.pc = "log", !.res = v])
    /\ UNCHANGED notInstVars
    /\ UNCHANGED << graph, dependencies, managed_cls, active_run, cls_init,
                    instantiated, instances, allocs, ctor_calls, runs,
                    published, outcome, calls >>

\* ... or raises ...
EntryRaise ==
    /\ stack # << >> /\ Top.kind = "run" /\ Top.pc = "call"
    /\ Raise("EntryPointError")
    /\ UNCHANGED notInstVars
    /\ UNCHANGED << graph, dependencies, managed_cls, active_run, cls_init,
                    instantiated, instances, allocs, ctor_calls, runs,
                    published, calls >>

\* ... or calls run() on its own Component (self.__component__.run(...)).
EntryReenter(o) ==
    /\ stack # << >> /\ Top.kind = "run" /\ Top.pc = "call"
    /\ Len(runs) < MaxRuns
    /\ Len(stack) < RecursionLimit
    /\ stack' = Append(stack, RunFrame(Top.comp, Top.params, o))
    /\ UNCHANGED notInstVars
    /\ UNCHANGED << graph, dependencies, managed_cls, active_run, cls_init,
                    instantiated, instances, allocs, ctor_calls, runs,
                    published, outcome, calls >>

\* component.py:223-224.
RunLog ==
    /\ stack # << >> /\ Top.kind = "run" /\ Top.pc = "log"
    /\ runs' = IF Top.log
               THEN [runs EXCEPT ![Top.run].return_value = Top.res]
               ELSE runs
    /\ stack' = SetTop([Top EXCEPT !.pc = "clear"])
    /\ UNCHANGED notInstVars
    /\ UNCHANGED << graph, dependencies, managed_cls, active_run, cls_init,
                    instantiated, instances, allocs, ctor_calls, published,
                    outcome, calls >>

\* component.py:225.
RunClear ==
    /\ stack # << >> /\ Top.kind = "run" /\ Top.pc = "clear"
    /\ active_run' = [active_run EXCEPT ![Top.comp] = NoRun]
    /\ stack' = SetTop([Top EXCEPT !.pc = "publish"])
    /\ UNCHANGED notInstVars
    /\ UNCHANGED << graph, dependencies, managed_cls, cls_init, instantiated,
                    instances, allocs, ctor_calls, runs, published, outcome,
                    calls >>

\* component.py:226-228.
RunPublish ==
    /\ stack # << >> /\ Top.kind = "run" /\ Top.pc = "publish"
    /\ published' = IF Top.publish THEN published \cup {Top.run} ELSE published
    /\ ReturnValue(Top.run, instances)
    /\ UNCHANGED notInstVars
    /\ UNCHANGED << graph, dependencies, managed_cls, active_run, cls_init,
                    instantiated, allocs, ctor_calls, runs, calls >>

InstNext ==
    \/ \E c \in Roots, p \in ParamSets : CallGetInstance(c, p)
    \/ \E c \in Roots, p \in ParamSets, o \in RunOptions : CallRun(c, p, o)
    \/ InstEnter
    \/ InstDep
    \/ InstWire
    \/ InstCtor
    \/ InstMemo
    \/ RunCheck
    \/ RunOpen
    \/ RunInstantiate
    \/ EntryParams
    \/ \E v \in RetVals : EntryReturn(v)
    \/ EntryRaise
    \/ \E o \in RunOptions : EntryReenter(o)
    \/ RunLog
    \/ RunClear
    \/ RunPublish

\* ------------------------------------------------------------------------
\* Identifiers
\* ------------------------------------------------------------------------

\* The string "name" or "name==version", as the list of its parts around
\* the separator "==".
IdStr(id) == IF id.version = None THEN << id.name >> ELSE << id.name, id.version >>

\* ComponentIdentifier.from_str: split at "==".
FromStr(s) == [name |-> s[1], version |-> IF Len(s) > 1 THEN s[2] ELSE None]

Identifier(name, version) == [name |-> name, version |-> version]

\* str(parameter_set): ParameterSet defines neither __str__ nor __repr__,
\* so the text is object.__repr__, which names the object's address.
PsStr(i) == << "ParameterSet object at", i >>

\* RunCommand.__hash__, run_command.py:53-58: the hash of the concatenation
\* of the component's full identifier, the entry point and str(params).
RunCommandHash(component_id, entry_point, i) ==
    << IdStr(component_id), entry_point, PsStr(i) >>

\* ------------------------------------------------------------------------
\* Repos and Components written to a registry (inputs of SpecReg)
\* ------------------------------------------------------------------------

RepoObjs ==
    [ R1  |-> [identifier |-> "r1", type |-> "github", url |-> "u1"],
      R1x |-> [identifier |-> "r1", type |-> "github", url |-> "u2"],
      R2  |-> [identifier |-> "r2", type |-> "github", url |-> "u1"] ]

\* GitHubRepo.to_spec(flatten=False): {identifier: {type, url}}.
RepoInner(r) == [type |-> r.type, url |-> r.url]
RepoToSpec(r) == r.identifier :> RepoInner(r)

\* The Component objects of the embedding program.  dependencies maps an
\* attribute name to another object of the table.
CompObjs ==
    [ l1  |-> [identifier |-> Identifier("B", "1"), repo |-> "R2",
               file_path |-> "b.py", class_name |-> "B", dependencies |-> {}],
      a1  |-> [identifier |-> Identifier("A", "1"), repo |-> "R1",
               file_path |-> "a.py", class_name |-> "A", dependencies |-> {}],
      a1x |-> [identifier |-> Identifier("A", "1"), repo |-> "R1",
               file_path |-> "ax.py", class_name |-> "A",
               dependencies |-> {<<"b", "l1">>}],
      a0  |-> [identifier |-> Identifier("A", None), repo |-> "R1",
               file_path |-> "a.py", class_name |-> "A", dependencies |-> {}],
      a2  |-> [identifier |-> Identifier("A", "2"), repo |-> "R1x",
               file_path |-> "a.py", class_name |-> "A", dependencies |-> {}],
      s1  |-> [identifier |-> Identifier("C", "1"), repo |-> "R2",
               file_path |-> "c.py", class_name |-> "C",
               dependencies |-> {<<"b", "l1">>}] ]

CompIds == DOMAIN CompObjs

RepoOf(c) == RepoObjs[CompObjs[c].repo]

\* Component.to_spec(flatten=False), component.py:307-323.  A dict is the
\* set of its items.
Content(c) ==
    [repo |-> RepoOf(c).identifier,
     file_path |-> CompObjs[c].file_path,
     class_name |-> CompObjs[c].class_name,
     dependencies |-> { << d[1], IdStr(CompObjs[d[2]].identifier) >> :
                           d \in CompObjs[c].dependencies }]
ToSpec(c) == IdStr(CompObjs[c].identifier) :> Content(c)

\* The values of a dict, in some order.
RECURSIVE SeqOf(_)
SeqOf(S) ==
    IF S = {} THEN << >>
    ELSE LET x == CHOOSE y \in S : TRUE IN << x >> \o SeqOf(S \ {x})

\* component.dependencies.values() of the objects of the table.
RegDeps == [c \in CompIds |-> SeqOf({ d[2] : d \in CompObjs[c].dependencies })]

\* Nothing is collected.
CollectNothing(ret_val, component) == ret_val

\* ret_val.add(component), component.py:402.
Collect(ret_val, component) == ret_val \cup {component}

\* The loop of Component.to_dependency_list, component.py:400-404: the last
\* component of the queue is popped and added to the set, its dependencies
\* are appended; nothing tests whether a component was seen before.
RECURSIVE Reach(_, _, _)
Reach(deps, component_queue, ret_val) ==
    IF component_queue = << >> THEN ret_val
    ELSE LET component == component_queue[Len(component_queue)]
             rest == SubSeq(component_queue, 1, Len(component_queue) - 1)
         IN Reach(deps, rest \o deps[component], Collect(ret_val, component))

\* Component.to_dependency_list(exclude_root=False) as a set.
ToDependencyList(c) == Reach(RegDeps, << c >>, {c})

\* list(ret_val): a set is listed in an order the program does not choose.
Orders(S) == { o \in [1..Cardinality(S) -> S] : \A x \in S : \E i \in DOMAIN o : o[i] = x }

\* ------------------------------------------------------------------------
\* InMemoryRegistry
\* ------------------------------------------------------------------------

EmptyRegistry == [components |-> EmptyMap, repos |-> EmptyMap]

\* dict.update
Update(t, s) == [k \in DOMAIN t \cup DOMAIN s |-> IF k \in DOMAIN s THEN s[k] ELSE t[k]]

\* InMemoryRegistry.get_component_specs, registry.py:215-236.
PassesFilter(k, filter_by_name, filter_by_version) ==
    /\ filter_by_name # None => FromStr(k).name = filter_by_name
    /\ filter_by_version # None => FromStr(k).version = filter_by_version

GetComponentSpecs(reg, filter_by_name, filter_by_version) ==
    IF filter_by_name # None \/ filter_by_version # None
    THEN [k \in { x \in DOMAIN reg.components :
                     PassesFilter(x, filter_by_name, filter_by_version) }
             |-> reg.components[k]]
    ELSE reg.components

\* registry.py:147-148: name and version are stored into the dict that was
\* found, which is the dict the registry holds.
Flattened(inner, id) ==
    [k \in DOMAIN inner \cup {"name", "version"} |->
        IF k = "name" THEN id.name
        ELSE IF k = "version" THEN id.version
        ELSE inner[k]]

\* "\n - ".join(versions), registry.py:136: str.join refuses a None item.
JoinVersions(versions) == IF None \in versions THEN "TypeError" ELSE "LookupError"

\* Registry.get_component_spec, registry.py:125-150.
GetComponentSpecResult(reg, name, version, flattened) ==
    LET components == GetComponentSpecs(reg, name, version)
        n == Cardinality(DOMAIN components)
    IN  IF n = 0
        THEN [kind |-> "LookupError", value |-> None, versions |-> {}, registry |-> reg]
        ELSE IF n > 1
        THEN LET versions == { FromStr(k).version : k \in DOMAIN components }
             IN [kind |-> JoinVersions(versions), value |-> None,
                 versions |-> versions, registry |-> reg]
        ELSE IF flattened
        THEN LET k == CHOOSE x \in DOMAIN components : TRUE
                 flat == Flattened(components[k], FromStr(k))
             IN [kind |-> "ok", value |-> flat, versions |-> {},
                 registry |-> [reg EXCEPT !.components = Update(@, k :> flat)]]
        ELSE [kind |-> "ok", value |-> components, versions |-> {}, registry |-> reg]

\* component.py:355-356: the conflict check on the component spec.
ComponentConflict(existing_c_spec, c, force) ==
    /\ DOMAIN existing_c_spec # {}
    /\ ~force
    /\ existing_c_spec # ToSpec(c)

\* component.py:366-377: the stored repo spec is compared with the repo's
\* nested spec; a repo that is not stored yet (LookupError) is added.
RepoConflict(reg, c, force) ==
    /\ RepoOf(c).identifier \in DOMAIN reg.repos
    /\ reg.repos[RepoOf(c).identifier] # RepoToSpec(RepoOf(c))

\* The loop of Component.to_registry, component.py:351-380, over the
\* listed components.
RECURSIVE WriteAll(_, _, _, _)
WriteAll(reg, order, recurse, force) ==
    IF order = << >>
    THEN [kind |-> "ok", registry |-> reg, at |-> None, what |-> None, seen |-> reg]
    ELSE LET c == Head(order)
             existing_c_spec == GetComponentSpecs(reg, CompObjs[c].identifier.name,
                                                  CompObjs[c].identifier.version)
             reg1 == [reg EXCEPT !.components = Update(@, ToSpec(c))]
             reg2 == [reg1 EXCEPT !.repos = Update(@, RepoToSpec(RepoOf(c)))]
         IN  IF ComponentConflict(existing_c_spec, c, force)
             THEN [kind |-> "RegistryException", registry |-> reg, at |-> c,
                   what |-> "component", seen |-> reg]
             ELSE IF RepoConflict(reg1, c, force)
             THEN \* component.py:368-374: building the message of the
                  \* RegistryException reads c.repo.name, which a GitHubRepo
                  \* (repo.py:255-262) does not have.
                  [kind |-> "AttributeError", registry |-> reg1, at |-> c,
                   what |-> "repo", seen |-> reg1]
             ELSE IF RepoOf(c).identifier \in DOMAIN reg1.repos
             THEN IF recurse THEN WriteAll(reg1, Tail(order), recurse, force)
                  ELSE [kind |-> "ok", registry |-> reg1, at |-> None,
                        what |-> None, seen |-> reg1]
             ELSE IF recurse THEN WriteAll(reg2, Tail(order), recurse, force)
                  ELSE [kind |-> "ok", registry |-> reg2, at |-> None,
                        what |-> None, seen |-> reg2]

RegInit ==
    /\ registry = EmptyRegistry
    /\ last = [op |-> None]

\* Component.to_registry(registry, recurse, force), also reached through
\* Registry.add_component (registry.py:183-186).
ToRegistry(c, recurse, force) ==
    /\ \E order \in Orders(ToDependencyList(c)) :
          LET r == WriteAll(registry, order, recurse, force) IN
          /\ registry' = r.registry
          /\ last' = [op |-> "to_registry", comp |-> c, recurse |-> recurse,
                      force |-> force, order |-> order, pre |-> registry,
                      kind |-> r.kind, at |-> r.at, what |-> r.what,
                      seen |-> r.seen]
    /\ UNCHANGED notRegVars

\* Registry.get_component_spec(name, version, flattened).
GetComponentSpec(name, version, flattened) ==
    /\ LET r == GetComponentSpecResult(registry, name, version, flattened) IN
          /\ registry' = r.registry
          /\ last' = [op |-> "get_component_spec", name |-> name,
                      version |-> version, flattened |-> flattened,
                      pre |-> registry, kind |-> r.kind, value |-> r.value,
                      versions |-> r.versions]
    /\ UNCHANGED notRegVars

RegNames == {"A", "B"}
RegVersions == {None, "1"}

\* What a spec-producing call hands back: a dict, or None.
Dict(d) == [form |-> "dict", value |-> d]
NoneValue == [form |-> "None", value |-> EmptyMap]

\* dict.update returns None.
DictUpdateResult(t, s) == NoneValue

\* Component.to_spec(flatten), component.py:307-323: the flat form is the
\* content with the identifier string under "identifier".
ComponentToSpecResult(c, flatten) ==
    LET component_spec_content == Content(c) IN
    IF flatten
    THEN Dict(Update(component_spec_content,
                     "identifier" :> IdStr(CompObjs[c].identifier)))
    ELSE Dict(IdStr(CompObjs[c].identifier) :> component_spec_content)

\* The RunCommand objects of the embedding program; parameter_set is the
\* address of the ParameterSet object and the mapping it holds.
RcObjs ==
    { [component |-> c, entry_point |-> e, parameter_set |-> ps] :
         c \in {"a1", "l1"}, e \in {"fn", "go"},
         ps \in { [addr |-> 1, mapping |-> ("A" :> ("fn" :> ("input" :> "hi")))],
                  [addr |-> 2, mapping |-> ("B" :> ("__init__" :> ("x" :> "1")))] } }

\* RunCommand.identifier, run_command.py:69-71.
RcIdentifier(rc) ==
    RunCommandHash(CompObjs[rc.component].identifier, rc.entry_point,
                   rc.parameter_set.addr)

\* RunCommand.to_spec(flatten), run_command.py:161-174: with flatten the
\* method returns what inner.update(...) returns.
RunCommandToSpecResult(rc, flatten) ==
    LET inner == [component_id |-> CompObjs[rc.component].identifier,
                  entry_point |-> rc.entry_point,
                  parameter_set |-> rc.parameter_set.mapping]
    IN  IF flatten
        THEN DictUpdateResult(inner, "identifier" :> RcIdentifier(rc))
        ELSE Dict(RcIdentifier(rc) :> inner)

\* component.to_spec(flatten=...)
ComponentToSpec(c, flatten) ==
    /\ last' = [op |-> "Component.to_spec", obj |-> c, flatten |-> flatten,
                kind |-> "ok", result |-> ComponentToSpecResult(c, flatten)]
    /\ UNCHANGED registry
    /\ UNCHANGED notRegVars

\* run_command.to_spec(flatten=...)
RunCommandToSpec(rc, flatten) ==
    /\ last' = [op |-> "RunCommand.to_spec", obj |-> rc, flatten |-> flatten,
                kind |-> "ok", result |-> RunCommandToSpecResult(rc, flatten)]
    /\ UNCHANGED registry
    /\ UNCHANGED notRegVars

RegNext ==
    \/ \E c \in CompIds, recurse \in BOOLEAN, force \in BOOLEAN :
          ToRegistry(c, recurse, force)
    \/ \E name \in RegNames, version \in RegVersions, flattened \in BOOLEAN :
          GetComponentSpec(name, version, flattened)
    \/ \E c \in CompIds, flatten \in BOOLEAN : ComponentToSpec(c, flatten)
    \/ \E rc \in RcObjs, flatten \in BOOLEAN : RunCommandToSpec(rc, flatten)

\* ------------------------------------------------------------------------
\* Component.from_registry
\* ------------------------------------------------------------------------

\* Component objects one from_registry call may construct.
MaxLoads == 6

\* A component spec as a registry file holds it; dependencies lists the
\* (attribute name, identifier string) items in the file's order.
SpecOf(repo, deps) ==
    [repo |-> repo, file_path |-> "f.py", class_name |-> "K", dependencies |-> deps]

LoadRepos == "r1" :> [type |-> "local", path |-> "."]

\* Registries handed to from_registry.
LoadRegistries ==
    [ diamond |->
        [components |->
            (<<"A", "1">> :> SpecOf("r1", << <<"b", <<"B", "1">> >>, <<"c", <<"C", "1">> >> >>))
            @@ (<<"B", "1">> :> SpecOf("r1", << <<"d", <<"D", "1">> >> >>))
            @@ (<<"C", "1">> :> SpecOf("r1", << <<"d", <<"D", "1">> >> >>))
            @@ (<<"D", "1">> :> SpecOf("r1", << >>)),
         repos |-> LoadRepos],
      cycle |->
        [components |->
            (<<"A", "1">> :> SpecOf("r1", << <<"b", <<"B", "1">> >> >>))
            @@ (<<"B", "1">> :> SpecOf("r1", << <<"a", <<"A", "1">> >> >>)),
         repos |-> LoadRepos],
      missing |->
        [components |->
            (<<"A", "1">> :> SpecOf("r1", << <<"b", <<"B", "1">> >> >>))
            @@ (<<"C", "1">> :> SpecOf("r9", << >>)),
         repos |-> LoadRepos],
      versions |->
        [components |->
            (<<"A", "1">> :> SpecOf("r1", << <<"b", <<"B">> >> >>))
            @@ (<<"B", "1">> :> SpecOf("r1", << >>))
            @@ (<<"B", "2">> :> SpecOf("r1", << >>))
            @@ (<<"C", "1">> :> SpecOf("r1", << <<"d", <<"D">> >> >>))
            @@ (<<"D">> :> SpecOf("r1", << >>))
            @@ (<<"D", "1">> :> SpecOf("r1", << >>)),
         repos |-> LoadRepos] ]

LoadRoots == { Identifier(n, v) : n \in {"A", "B", "C", "D"}, v \in {None, "1"} }

LoadInit == load = [pc |-> "idle"]

\* component.py:78-82.
FromRegistry(r, identifier) ==
    /\ load.pc = "idle"
    /\ load' = [pc |-> "loop", regname |-> r, reg |-> LoadRegistries[r],
                identifier |-> identifier,
                component_identifiers |-> << identifier >>,
                repos |-> {}, components |-> EmptyMap, dependencies |-> EmptyMap,
                objs |-> << >>, kind |-> None]
    /\ UNCHANGED notLoadVars

\* The identifiers a spec's dependencies push, component.py:106-109.
RECURSIVE Pushed(_)
Pushed(deps) ==
    IF deps = << >> THEN << >>
    ELSE << FromStr(Head(deps)[2]) >> \o Pushed(Tail(deps))

\* components[component_id] = component (component.py:104): a construction
\* for an identifier that was loaded before replaces the earlier object.
StoreComponent(components, key, obj) == Update(components, key :> obj)

\* One pass of the loop of component.py:83-109.
LoadStep ==
    /\ load.pc = "loop"
    /\ load.component_identifiers # << >>
    /\ Len(load.objs) < MaxLoads
    /\ LET n == Len(load.component_identifiers)
           component_id == load.component_identifiers[n]
           rest == SubSeq(load.component_identifiers, 1, n - 1)
           r == GetComponentSpecResult(load.reg, component_id.name,
                                       component_id.version, TRUE)
       IN IF r.kind # "ok"
          THEN load' = [load EXCEPT !.pc = "raised", !.kind = r.kind]
          ELSE LET component_spec == r.value
                   repo_id == component_spec["repo"]
                   key == IdStr(component_id)
                   obj == [key |-> key,
                           identifier |-> Identifier(component_spec["name"],
                                                     component_spec["version"]),
                           dependencies |-> {}]
               IN IF repo_id \notin load.repos /\ repo_id \notin DOMAIN r.registry.repos
                  THEN load' = [load EXCEPT !.pc = "raised", !.kind = "LookupError",
                                            !.reg = r.registry,
                                            !.component_identifiers = rest]
                  ELSE load' = [load EXCEPT
                          !.reg = r.registry,
                          !.repos = @ \cup {repo_id},
                          !.objs = Append(@, obj),
                          !.components = StoreComponent(@, key, Len(load.objs) + 1),
                          !.dependencies = Update(@, key :> component_spec["dependencies"]),
                          !.component_identifiers =
                              rest \o Pushed(component_spec["dependencies"])]
    /\ UNCHANGED notLoadVars

\* component.py:111-117: every loaded Component gets its dependencies from
\* the components table, and the root's Component is returned.
Wired(ld, o) ==
    IF \E k \in DOMAIN ld.components : ld.components[k] = o
    THEN { << d[1], ld.components[d[2]] >> :
              d \in { ld.dependencies[ld.objs[o].key][j] :
                         j \in DOMAIN ld.dependencies[ld.objs[o].key] } }
    ELSE {}

LoadWire ==
    /\ load.pc = "loop"
    /\ load.component_identifiers = << >>
    /\ load' = [load EXCEPT
                   !.pc = "returned",
                   !.kind = "ok",
                   !.objs = [o \in DOMAIN load.objs |->
                                [load.objs[o] EXCEPT !.dependencies = Wired(load, o)]]]
    /\ UNCHANGED notLoadVars

LoadNext ==
    \/ \E r \in DOMAIN LoadRegistries, identifier \in LoadRoots :
          FromRegistry(r, identifier)
    \/ LoadStep
    \/ LoadWire

\* ------------------------------------------------------------------------
\* ParameterSet and RunCommand identity (SpecParams)
\* ------------------------------------------------------------------------

\* ParameterSet objects built in one behaviour.
MaxParamSets == 2
\* ParameterSet.update calls in one behaviour.
MaxUpdates == 1

PComps == {"C", "D"}
PFns == {"f", "g"}

\* {"C": {"f": {"x": 1}}}, the mapping of the documented example.
OneMapping == ("C" :> ("f" :> ("x" :> 1)))
\* {"C": {"f": {"x": 1}, "g": {}}, "D": {"f": {"y": 2}}}
TwoMapping == ("C" :> ("f" :> ("x" :> 1) @@ "g" :> EmptyMap)) @@ ("D" :> ("f" :> ("y" :> 2)))

\* The argument of ParameterSet(parameters): nothing, {} or a mapping.
PSources ==
    { [given |-> FALSE, mapping |-> EmptyMap],
      [given |-> TRUE, mapping |-> EmptyMap],
      [given |-> TRUE, mapping |-> OneMapping],
      [given |-> TRUE, mapping |-> TwoMapping] }

\* The params argument of ParameterSet.update.
PUpdates == { ("x" :> 2), ("y" :> 2) }

\* The mapping an object's top level refers to, with the per-component
\* dicts read from the heap.
Deref(top, heap) == [c \in DOMAIN top |-> heap[top[c]]]

\* ParameterSet.get_function_params on a ParameterSet that holds a Map,
\* parameter_set.py:46-54.
GetFunctionParams(ps, heap, component_name, function_name) ==
    LET component_params == Get(Deref(ps.top, heap), component_name)
        fn_params == Get(component_params, function_name)
    IN  IF fn_params # EmptyMap THEN fn_params ELSE EmptyMap

\* Every lookup on a ParameterSet: what get_function_params returns for
\* each pair, or that it raises.
Lookups(ps, heap) ==
    IF ps.is_map
    THEN [kind |-> "ok",
          value |-> [c \in PComps |-> [f \in PFns |-> GetFunctionParams(ps, heap, c, f)]]]
    ELSE [kind |-> "raises", value |-> [c \in PComps |-> [f \in PFns |-> EmptyMap]]]

PsInit ==
    /\ pheap = << >>
    /\ psrc = << >>
    /\ pobj = << >>
    /\ pupdates = 0
    /\ plast = [op |-> None]

\* The addresses given to the per-component dicts of a mapping.
RECURSIVE Place(_, _)
Place(keys, next) ==
    IF keys = {} THEN EmptyMap
    ELSE LET k == CHOOSE x \in keys : TRUE
         IN  (k :> next) @@ Place(keys \ {k}, next + 1)

RECURSIVE Stored(_, _)
Stored(mapping, keys) ==
    IF keys = {} THEN << >>
    ELSE LET k == CHOOSE x \in keys : TRUE
         IN  << mapping[k] >> \o Stored(mapping, keys \ {k})

\* ParameterSet.__init__, parameter_set.py:17-18: Map(parameters) copies the
\* top level and shares the per-component dicts with the caller's mapping;
\* with no parameters or an empty mapping _parameters is the class Map.
PsNew(src) ==
    /\ Len(pobj) < MaxParamSets
    /\ LET top == Place(DOMAIN src.mapping, Len(pheap) + 1) IN
       /\ pheap' = pheap \o Stored(src.mapping, DOMAIN src.mapping)
       /\ psrc' = Append(psrc, [given |-> src.given, top |-> top])
       /\ pobj' = Append(pobj,
              IF src.given /\ src.mapping # EmptyMap
              THEN [is_map |-> TRUE, top |-> top]
              ELSE [is_map |-> FALSE, top |-> EmptyMap])
    /\ plast' = [op |-> "new", obj |-> Len(pobj) + 1]
    /\ UNCHANGED pupdates
    /\ UNCHANGED notPsVars

\* ParameterSet.get_function_params, parameter_set.py:46-54.
PsGet(i, c, f) ==
    /\ i \in DOMAIN pobj
    /\ IF pobj[i].is_map
       THEN plast' = [op |-> "get", obj |-> i, comp |-> c, fn |-> f,
                      kind |-> "ok",
                      value |-> GetFunctionParams(pobj[i], pheap, c, f)]
       ELSE \E e \in MapClassErrors :
               plast' = [op |-> "get", obj |-> i, comp |-> c, fn |-> f,
                         kind |-> e, value |-> EmptyMap]
    /\ UNCHANGED << pheap, psrc, pobj, pupdates >>
    /\ UNCHANGED notPsVars

\* ParameterSet.update, parameter_set.py:37-44.
PsUpdate(i, c, f, params) ==
    /\ i \in DOMAIN pobj
    /\ pupdates < MaxUpdates
    /\ pupdates' = pupdates + 1
    /\ LET pre == [obj |-> Lookups(pobj[i], pheap),
                   src |-> Deref(psrc[i].top, pheap)]
       IN
       IF pobj[i].is_map
       THEN LET top == pobj[i].top
                has_c == c \in DOMAIN top
                component_params == IF has_c THEN pheap[top[c]] ELSE EmptyMap
                fn_params == Update(Get(component_params, f), params)
                new_cp == Update(component_params, f :> fn_params)
            IN  /\ IF has_c
                   THEN /\ pheap' = [pheap EXCEPT ![top[c]] = new_cp]
                        /\ pobj' = pobj
                   ELSE /\ pheap' = Append(pheap, new_cp)
                        /\ pobj' = [pobj EXCEPT ![i].top =
                                        Update(top, c :> (Len(pheap) + 1))]
                /\ plast' = [op |-> "update", obj |-> i, comp |-> c, fn |-> f,
                             params |-> params, kind |-> "ok", ret |-> None,
                             pre |-> pre]
       ELSE /\ \E e \in MapClassErrors :
                  plast' = [op |-> "update", obj |-> i, comp |-> c, fn |-> f,
                            params |-> params, kind |-> e, ret |-> None,
                            pre |-> pre]
            /\ UNCHANGED << pheap, pobj >>
    /\ UNCHANGED psrc
    /\ UNCHANGED notPsVars

\* Components and entry points of the RunCommands compared.
RcIds == { Identifier("C", None), Identifier("C", "1") }
RcEntryPoints == {"f", "g"}

\* Two RunCommands (run_command.py:40-48) are built and compared with ==
\* (run_command.py:60-64): equal iff their hashes are.
RcCompare(id1, e1, i, id2, e2, j) ==
    /\ i \in DOMAIN pobj /\ j \in DOMAIN pobj
    /\ LET h1 == RunCommandHash(id1, e1, i)
           h2 == RunCommandHash(id2, e2, j)
       IN plast' = [op |-> "compare",
                    left |-> [component |-> id1, entry_point |-> e1, params |-> i],
                    right |-> [component |-> id2, entry_point |-> e2, params |-> j],
                    hash_left |-> h1, hash_right |-> h2, eq |-> (h1 = h2)]
    /\ UNCHANGED << pheap, psrc, pobj, pupdates >>
    /\ UNCHANGED notPsVars

PsNext ==
    \/ \E src \in PSources : PsNew(src)
    \/ \E i \in 1..MaxParamSets, c \in PComps, f \in PFns : PsGet(i, c, f)
    \/ \E i \in 1..MaxParamSets, c \in PComps, f \in PFns, params \in PUpdates :
          PsUpdate(i, c, f, params)
    \/ \E id1 \in RcIds, id2 \in RcIds, e1 \in RcEntryPoints, e2 \in RcEntryPoints,
          i \in 1..MaxParamSets, j \in 1..MaxParamSets :
          RcCompare(id1, e1, i, id2, e2, j)

\* ------------------------------------------------------------------------
\* Component.to_dependency_list, step by step (SpecDeps)
\* ------------------------------------------------------------------------

\* Passes of the loop of to_dependency_list in one call; a call on a cyclic
\* graph never leaves the loop and is cut here.
MaxDepSteps == 8

DepInit == dl = [pc |-> "idle"]

\* component.py:398-399.
DepListCall(g, root, exclude_root) ==
    /\ dl.pc = "idle"
    /\ dl' = [pc |-> "loop", graph |-> g.name, dependencies |-> g.dependencies,
              root |-> root, exclude_root |-> exclude_root,
              component_queue |-> << root >>,
              ret_val |-> IF exclude_root THEN {} ELSE {root},
              steps |-> 0, result |-> << >>]
    /\ UNCHANGED notDepVars

\* component.py:400-404, one pass.
DepListStep ==
    /\ dl.pc = "loop"
    /\ dl.component_queue # << >>
    /\ dl.steps < MaxDepSteps
    /\ LET component == dl.component_queue[Len(dl.component_queue)]
           rest == SubSeq(dl.component_queue, 1, Len(dl.component_queue) - 1)
       IN dl' = [dl EXCEPT !.component_queue = rest \o dl.dependencies[component],
                           !.ret_val = Collect(dl.ret_val, component),
                           !.steps = @ + 1]
    /\ UNCHANGED notDepVars

\* component.py:405: return list(ret_val).
DepListReturn ==
    /\ dl.pc = "loop"
    /\ dl.component_queue = << >>
    /\ \E order \in Orders(dl.ret_val) :
          dl' = [dl EXCEPT !.pc = "returned", !.result = order]
    /\ UNCHANGED notDepVars

DepNext ==
    \/ \E g \in Graphs, root \in Comps, exclude_root \in BOOLEAN :
          DepListCall(g, root, exclude_root)
    \/ DepListStep
    \/ DepListReturn

\* ------------------------------------------------------------------------
\* Claims about Component.run and get_instance (SpecInst)
\* ------------------------------------------------------------------------

\* The run() frames of component c whose Run is open: accepted by the check
\* and not yet past the clearing of active_run.
ActiveRunFrames(c) ==
    { i \in DOMAIN stack :
         /\ stack[i].kind = "run"
         /\ stack[i].comp = c
         /\ stack[i].pc \in {"instantiate", "params", "call", "log", "clear"} }

\* C1: run() called on a Component whose active_run is still set is
\* rejected with an error (the call ends in AssertionError and opens no
\* Run), so no Component ever has two runs active at the same time.
C1_SingleActiveRun ==
    /\ [](\A c \in Comps : Cardinality(ActiveRunFrames(c)) <= 1)
    /\ [][ (/\ stack # << >>
            /\ Top.kind = "run"
            /\ Top.pc = "check"
            /\ active_run[Top.comp] # NoRun)
           => (/\ stack' = << >>
               /\ outcome'.kind = "AssertionError"
               /\ runs' = runs) ]_vars

\* C1 happens: the entry point of the first top-level run re-entered run()
\* on its own Component and the nested call was rejected.
C1_Witness ==
    /\ calls = 1
    /\ outcome.op = "run"
    /\ outcome.kind = "AssertionError"
    /\ active_run[outcome.comp] # NoRun

DepSet(c) == { dependencies[c][i] : i \in DOMAIN dependencies[c] }

\* C2: when B and C both depend on D, one get_instance call executes D's
\* instantiation (and D's constructor) exactly once, and the D attached to
\* B's instance is the D attached to C's instance.
C2_DiamondSharedOnce ==
    \A b \in Comps, c \in Comps, d \in Comps :
        (b # c /\ d \in DepSet(b) /\ d \in DepSet(c)) =>
            /\ allocs[d] <= 1
            /\ ctor_calls[d] <= 1
            /\ (instantiated[b] # 0 /\ instantiated[c] # 0) =>
                  /\ allocs[d] = 1
                  /\ ctor_calls[d] = 1
                  /\ instantiated[d] # 0
                  /\ instances[instantiated[b]].attrs[d] = instantiated[d]
                  /\ instances[instantiated[c]].attrs[d] = instantiated[d]

\* C2 happens: get_instance on the root of the diamond returned, and B's
\* and C's instances carry the same D.
C2_Witness ==
    /\ graph = "diamond"
    /\ stack = << >>
    /\ outcome.op = "inst" /\ outcome.comp = "A" /\ outcome.kind = "ok"
    /\ instances[outcome.value].attrs["B"] = instantiated["B"]
    /\ instances[outcome.value].attrs["C"] = instantiated["C"]
    /\ instances[instantiated["B"]].attrs["D"] = instantiated["D"]
    /\ instances[instantiated["C"]].attrs["D"] = instantiated["D"]
    /\ instantiated["D"] # 0

DepStep(S) == S \cup UNION { DepSet(x) : x \in S }
\* The components c depends on, directly or not (four components: four steps).
DepClosure(c) == DepStep(DepStep(DepStep(DepSet(c))))
OnCycle(c) == c \in DepClosure(c)

\* C3: for a dependency configuration that contains a cycle, instantiation
\* stops with an explicit "no component ready to initialize" error; it does
\* not recurse until the interpreter gives up.
C3_CycleExplicitError ==
    (/\ stack = << >>
     /\ outcome.op = "inst"
     /\ OnCycle(outcome.comp))
    => outcome.kind = "NoComponentReady"

\* ------------------------------------------------------------------------
\* Claims about the registry (SpecReg)
\* ------------------------------------------------------------------------

\* The stored identifiers a lookup for (name, version) is about.
Matching(reg, name, version) ==
    { k \in DOMAIN reg.components :
         /\ FromStr(k).name = name
         /\ version # None => FromStr(k).version = version }

\* C4: get_component_spec returns a spec only when exactly one stored
\* component matches; zero matches raise a lookup error; several matches,
\* whatever their versions, raise a lookup error listing the versions.
C4_LookupContract ==
    last.op = "get_component_spec" =>
        LET m == Matching(last.pre, last.name, last.version) IN
        /\ Cardinality(m) = 0 => last.kind = "LookupError"
        /\ Cardinality(m) > 1 =>
              /\ last.kind = "LookupError"
              /\ last.versions = { FromStr(k).version : k \in m }
        /\ Cardinality(m) = 1 => last.kind = "ok"
        /\ last.kind = "ok" => Cardinality(m) = 1

IdOf(c) == IdStr(CompObjs[c].identifier)

\* The registry holds c's identifier with a content other than c's.
Conflicting(reg, c) ==
    /\ IdOf(c) \in DOMAIN reg.components
    /\ reg.components[IdOf(c)] # Content(c)

\* C5: writing a component whose identifier is stored with a different
\* content raises a conflict error when force=False and replaces the stored
\* entry with the new spec when force=True.
C5_ConflictOrOverwrite ==
    (/\ last.op = "to_registry"
     /\ last.recurse
     /\ Conflicting(last.pre, last.comp))
    => IF last.force
       THEN /\ IdOf(last.comp) \in DOMAIN registry.components
            /\ registry.components[IdOf(last.comp)] = Content(last.comp)
       ELSE last.kind = "RegistryException"

\* C6: with force=False a component conflict is raised only for a
\* component whose exact identifier (same name, same version, no version
\* being different from every version) is stored with a different content.
C6_ConflictOnlyOnSameIdentifier ==
    (/\ last.op = "to_registry"
     /\ ~last.force
     /\ last.kind = "RegistryException"
     /\ last.what = "component")
    => Conflicting(last.seen, last.at)

\* The registry holds exactly c's component spec and c's repo spec.
HoldsIdentical(reg, c) ==
    /\ IdOf(c) \in DOMAIN reg.components
    /\ reg.components[IdOf(c)] = Content(c)
    /\ RepoOf(c).identifier \in DOMAIN reg.repos
    /\ reg.repos[RepoOf(c).identifier] = RepoInner(RepoOf(c))

\* C7: to_registry is idempotent: written to a registry that already holds
\* identical component and repo specs for every component of the closure,
\* it raises nothing and leaves the registry unchanged.
C7_Idempotent ==
    (/\ last.op = "to_registry"
     /\ last.recurse
     /\ \A c \in ToDependencyList(last.comp) : HoldsIdentical(last.pre, c))
    => /\ last.kind = "ok"
       /\ registry = last.pre

\* The registry holds c's repo identifier with a content other than c's repo.
RepoDiffers(reg, c) ==
    /\ RepoOf(c).identifier \in DOMAIN reg.repos
    /\ reg.repos[RepoOf(c).identifier] # RepoInner(RepoOf(c))

\* C8: the repo spec of a written component follows the component rule: a
\* stored repo with the same identifier and a different content raises a
\* conflict when force=False and is overwritten when force=True.
C8_RepoConflictOrOverwrite ==
    (/\ last.op = "to_registry"
     /\ last.recurse
     /\ RepoDiffers(last.pre, last.comp))
    => IF last.force
       THEN registry.repos[RepoOf(last.comp).identifier] = RepoInner(RepoOf(last.comp))
       ELSE /\ last.kind = "RegistryException"
            /\ last.what = "repo"

\* ------------------------------------------------------------------------
\* Claims about Component.from_registry (SpecLoad)
\* ------------------------------------------------------------------------

\* The identifiers from_registry has to resolve: the root and every
\* declared dependency of a spec that resolves.
RECURSIVE Needed(_, _, _)
Needed(reg, todo, seen) ==
    IF todo = {} THEN seen
    ELSE LET id == CHOOSE x \in todo : TRUE
             m == Matching(reg, id.name, id.version)
             deps == IF Cardinality(m) = 1
                     THEN LET k == CHOOSE x \in m : TRUE
                              ds == reg.components[k]["dependencies"]
                          IN { FromStr(ds[j][2]) : j \in DOMAIN ds }
                     ELSE {}
         IN Needed(reg, (todo \cup (deps \ seen)) \ {id}, seen \cup {id})

Unresolvable(reg, id) == Cardinality(Matching(reg, id.name, id.version)) # 1

\* C9: from_registry raises a lookup error and returns no Component
\* whenever the root identifier or a dependency identifier of its closure
\* matches zero or more than one component spec.
C9_FailFastLookup ==
    (/\ load.pc \in {"returned", "raised"}
     /\ \E id \in Needed(load.reg, {load.identifier}, {load.identifier}) :
           Unresolvable(load.reg, id))
    => /\ load.pc = "raised"
       /\ load.kind = "LookupError"

\* C10: from_registry constructs exactly one Component per identifier of
\* the closure (a shared sub-component is loaded once) and wires every
\* dependent to that one object.
C10_LoadedOnce ==
    load.pc = "returned" =>
        /\ \A k \in DOMAIN load.components :
              Cardinality({ o \in DOMAIN load.objs : load.objs[o].key = k }) = 1
        /\ \A o \in DOMAIN load.objs :
              \A d \in load.objs[o].dependencies :
                 d[2] \in { load.components[k] : k \in DOMAIN load.components }

\* ------------------------------------------------------------------------
\* Claims about ParameterSet and RunCommand (SpecParams)
\* ------------------------------------------------------------------------

\* The mapping a ParameterSet was constructed from, as it is now.
SourceOf(i) == Deref(psrc[i].top, pheap)

\* What a ParameterSet holds: its Map, or, when it holds none, the (empty)
\* mapping it was built from.
StoredIn(i) == IF pobj[i].is_map THEN Deref(pobj[i].top, pheap) ELSE SourceOf(i)

\* C11: for every ParameterSet, also one built with no parameters or with
\* an empty mapping, get_function_params returns the stored mapping of a
\* listed pair and an empty mapping for an unlisted pair; it never raises.
C11_GetNeverRaises ==
    plast.op = "get" =>
        /\ plast.kind = "ok"
        /\ plast.value = Get(Get(StoredIn(plast.obj), plast.comp), plast.fn)

\* C12: ParameterSet.update produces a new ParameterSet and leaves the
\* original unchanged: every lookup on the original, and the mapping it was
\* constructed from, are after the call what they were before it.
C12_UpdateCopies ==
    plast.op = "update" =>
        /\ plast.kind = "ok"
        /\ plast.ret # None
        /\ Lookups(pobj[plast.obj], pheap) = plast.pre.obj
        /\ SourceOf(plast.obj) = plast.pre.src

\* Two ParameterSets of identical content.
SameContent(i, j) ==
    /\ pobj[i].is_map = pobj[j].is_map
    /\ Deref(pobj[i].top, pheap) = Deref(pobj[j].top, pheap)

\* C13: two RunCommands built from the same component identifier, the same
\* entry point and parameter sets of identical content have the same hash
\* and compare equal, also when the ParameterSets are distinct objects.
C13_SameFieldsSameIdentity ==
    (/\ plast.op = "compare"
     /\ plast.left.component = plast.right.component
     /\ plast.left.entry_point = plast.right.entry_point
     /\ SameContent(plast.left.params, plast.right.params))
    => /\ plast.hash_left = plast.hash_right
       /\ plast.eq

\* The run() frames whose entry point has returned.
ReturnedRunFrames ==
    { i \in DOMAIN stack :
         stack[i].kind = "run" /\ stack[i].pc \in {"log", "clear", "publish"} }

\* C14: run(entry_point, params) passes the constructor exactly the
\* parameters stored under (component name, "__init__") and the entry point
\* exactly those stored under (component name, entry_point); looking them
\* up does not make run() fail; and the Run records what the entry point
\* returned and the component and entry point that were run.
C14_RunPassesStoredParams ==
    /\ outcome.op = "run" => outcome.kind \notin MapClassErrors
    /\ \A i \in ReturnedRunFrames :
          LET f == stack[i] IN
          /\ instances[f.inst].constructed
          /\ instances[f.inst].init_kwargs = ParamsOf(f.params, f.comp, "__init__")
          /\ f.kwargs = ParamsOf(f.params, f.comp, f.entry_point)
          /\ runs[f.run].run_command =
                [component |-> f.comp, entry_point |-> f.entry_point]
          /\ (f.log /\ f.pc # "log") => runs[f.run].return_value = f.res

\* The run() frames on the stack.
RunFrames == { i \in DOMAIN stack : stack[i].kind = "run" }

\* C23: within run(), active_run is set to the new Run before instantiation
\* begins, stays set throughout instantiation and the entry-point call, is
\* cleared only after the return value has been logged, and the Run is
\* published only after active_run was cleared.
C23_ActiveRunBrackets ==
    /\ [](\A i \in RunFrames :
            LET f == stack[i] IN
            /\ f.pc \in {"instantiate", "params", "call", "log", "clear"} =>
                  (f.run # NoRun /\ active_run[f.comp] = f.run)
            /\ (f.pc \in {"clear", "publish"} /\ f.log) =>
                  runs[f.run].return_value = f.res
            /\ f.pc = "publish" => active_run[f.comp] = NoRun
            /\ f.pc # "publish" => f.run \notin published)
    /\ [][ published' # published =>
              /\ Top.kind = "run"
              /\ Top.pc = "publish"
              /\ active_run[Top.comp] = NoRun
              /\ published' = published \cup {Top.run} ]_vars
    /\ [][ \A c \in Comps :
              (active_run[c] # NoRun /\ active_run'[c] = NoRun) =>
                 /\ Top.kind = "run" /\ Top.comp = c /\ Top.pc = "clear"
                 /\ Top.run = active_run[c] ]_vars

\* C23 happens: a run() that logs and publishes returned its Run: the
\* value is recorded, the Run is published, active_run is cleared.
C23_Witness ==
    /\ stack = << >>
    /\ outcome.op = "run"
    /\ outcome.kind = "ok"
    /\ outcome.value \in published
    /\ runs[outcome.value].return_value = "(1, 'hi')"
    /\ active_run[outcome.comp] = NoRun

\* No component of the graph is on a dependency cycle.
AcyclicGraph == \A c \in Comps : ~OnCycle(c)

\* C24: on an acyclic graph the real constructor of a component is invoked
\* only after each declared dependency has been fully instantiated (its
\* own constructor has returned) and attached under its attribute name,
\* and after the back-reference to the Component has been attached.
C24_CtorAfterDependencies ==
    [][ \A c \in Comps :
          (AcyclicGraph /\ ctor_calls'[c] > ctor_calls[c]) =>
             LET instance == instances[Top.inst] IN
             /\ instance.component = c
             /\ \A d \in DepSet(c) :
                   /\ instance.attrs[d] # 0
                   /\ instances[instance.attrs[d]].constructed ]_vars

\* C25: when a constructor or the entry point raises during run(), the
\* component's active_run is cleared, so that a later run() is accepted.
C25_RaiseClearsActiveRun ==
    (/\ stack = << >>
     /\ outcome.op = "run"
     /\ outcome.kind \in {"ConstructorError", "EntryPointError"})
        => active_run[outcome.comp] = NoRun

\* The components a get_instance call on c instantiates.
InstClosure(c) == {c} \cup DepClosure(c)

\* C28: in one get_instance call that returns, the real constructor has
\* been invoked exactly once for every component of the closure, also
\* when a component and one of its dependencies manage the same class.
C28_CtorExactlyOnce ==
    (stack = << >> /\ outcome.op = "inst" /\ outcome.kind = "ok") =>
        \A c \in InstClosure(outcome.comp) : ctor_calls[c] = 1

\* C29: when get_instance has returned or raised, every managed class has
\* its original constructor in place again.
C29_CtorsRestored ==
    (stack = << >> /\ outcome.op = "inst") =>
        \A c \in Comps : cls_init[managed_cls[c]] = "real"

\* ------------------------------------------------------------------------
\* Claims about Component.to_dependency_list (SpecDeps)
\* ------------------------------------------------------------------------

RangeOf(seq) == { seq[i] : i \in DOMAIN seq }
StepIn(deps, S) == S \cup UNION { RangeOf(deps[x]) : x \in S }
\* The components reachable from the components of S (four components:
\* three steps reach them all).
ReachableFrom(deps, S) == StepIn(deps, StepIn(deps, StepIn(deps, S)))
\* No component reachable from c is reachable from its own dependencies.
AcyclicFrom(deps, c) ==
    \A x \in ReachableFrom(deps, {c}) : x \notin ReachableFrom(deps, RangeOf(deps[x]))

\* C15: on an acyclic graph to_dependency_list terminates (the loop is
\* never cut short) and returns each component of the transitive closure,
\* root included, exactly once, also when a component is reachable via
\* several paths.
C15_ClosureExactlyOnce ==
    (dl.pc # "idle" /\ AcyclicFrom(dl.dependencies, dl.root)) =>
        /\ (dl.pc = "loop" /\ dl.component_queue # << >>) => dl.steps < MaxDepSteps
        /\ dl.pc = "returned" =>
              /\ RangeOf(dl.result) = ReachableFrom(dl.dependencies, {dl.root})
              /\ Len(dl.result) = Cardinality(ReachableFrom(dl.dependencies, {dl.root}))

\* C15 happens: the list of the diamond's root is returned after D was
\* taken from the queue twice.
C15_Witness ==
    /\ dl.pc = "returned"
    /\ dl.graph = "diamond" /\ dl.root = "A"
    /\ dl.steps = 5
    /\ Len(dl.result) = 4
    /\ "D" \in RangeOf(dl.result)

\* C16: to_dependency_list(exclude_root=True) returns the transitive
\* dependencies without the root component.
C16_RootExcluded ==
    (dl.pc = "returned" /\ dl.exclude_root) =>
        /\ dl.root \notin RangeOf(dl.result)
        /\ RangeOf(dl.result) =
              ReachableFrom(dl.dependencies, RangeOf(dl.dependencies[dl.root])) \ {dl.root}

\* C17: with exclude_root=False the root component is the first element of
\* the returned list.
C17_RootFirst ==
    (dl.pc = "returned" /\ ~dl.exclude_root) => dl.result[1] = dl.root

\* nest: the flat form's "identifier" entry becomes the outer key.
Nest(flat) ==
    flat["identifier"] :> [k \in DOMAIN flat \ {"identifier"} |-> flat[k]]
\* flatten: the outer key is folded in under "identifier".
Flatten(nested) ==
    LET id == CHOOSE k \in DOMAIN nested : TRUE IN
    Update(nested[id], "identifier" :> id)
\* The same two conversions for the flat form get_component_spec produces,
\* which folds the identifier in as "name" and "version".
NestNameVersion(flat) ==
    IdStr(Identifier(flat["name"], flat["version"])) :>
        [k \in DOMAIN flat \ {"name", "version"} |-> flat[k]]
FlattenNameVersion(nested) ==
    LET id == CHOOSE k \in DOMAIN nested : TRUE IN
    Flattened(nested[id], FromStr(id))

\* The two forms are dicts and convert into each other.
RoundTrips(nested, flat) ==
    /\ nested.form = "dict"
    /\ flat.form = "dict"
    /\ Nest(flat.value) = nested.value
    /\ Flatten(nested.value) = flat.value
    /\ Flatten(Nest(flat.value)) = flat.value
    /\ Nest(Flatten(nested.value)) = nested.value

\* C22: every spec-producing API gives the nested and the flat form, and
\* the two forms of one spec convert into each other without loss: the form
\* a call returned, with the other form of the same object, round-trips
\* (Component.to_spec, RunCommand.to_spec), and a successful lookup's flat
\* result nests back to the stored nested spec (get_component_spec).
C22_FormsRoundTrip ==
    /\ last.op = "Component.to_spec" =>
          /\ last.result.form = "dict"
          /\ RoundTrips(ComponentToSpecResult(last.obj, FALSE),
                        ComponentToSpecResult(last.obj, TRUE))
    /\ last.op = "RunCommand.to_spec" =>
          /\ last.result.form = "dict"
          /\ RoundTrips(RunCommandToSpecResult(last.obj, FALSE),
                        RunCommandToSpecResult(last.obj, TRUE))
    /\ (last.op = "get_component_spec" /\ last.kind = "ok") =>
          LET nested == GetComponentSpecs(last.pre, last.name, last.version) IN
          IF last.flattened
          THEN /\ NestNameVersion(last.value) = nested
               /\ FlattenNameVersion(nested) = last.value
          ELSE last.value = nested

\* C26: a lookup with get_component_spec (flattened or not; the by-id
\* lookup goes through it) leaves the registry's stored component, repo
\* and run tables unchanged.
C26_LookupsReadOnly ==
    last.op = "get_component_spec" => registry = last.pre

\* C27: when to_registry raises a conflict error, for the component spec
\* or the repo spec of any component of the closure, the registry is
\* exactly as it was before the call.
C27_ConflictLeavesRegistry ==
    (last.op = "to_registry" /\ last.what \in {"component", "repo"}) =>
        registry = last.pre

\* ------------------------------------------------------------------------
\* ComponentRun.log_return_value (SpecRunLog)
\* ------------------------------------------------------------------------

\* log_return_value calls made on the Run.
MaxLogCalls == 3

\* Python values an entry point may return, by their repr.
LogVals == {"None", "0", "''", "()", "False", "1", "'hi'", "(1, 'hi')"}
\* bool(v): None, zero, False and the empty string and tuple are false.
Truthy(v) == v \notin {"None", "0", "''", "()", "False"}

LogFormats == {"pickle", "json", "yaml", "xml"}

\* run.py:380: assert not self._return_value.
AlreadyLogged(run, ret_val) == Truthy(run.return_value)

\* Run.__init__, run.py:70: self._return_value = None.
RlInit == rl = [pc |-> "idle"]
RlNew ==
    /\ rl.pc = "idle"
    /\ rl' = [pc |-> "open", return_value |-> None, artifacts |-> << >>,
              calls |-> 0, history |-> << >>, kind |-> None]
    /\ UNCHANGED notRlVars

\* ComponentRun.log_return_value(ret_val, format), run.py:368-406: the
\* assertion, the assignment, then the file of the chosen format is written
\* and logged as an artifact; an unknown format raises after the
\* assignment.
LogReturnValue(ret_val, format) ==
    /\ rl.pc = "open"
    /\ rl.calls < MaxLogCalls
    /\ IF AlreadyLogged(rl, ret_val)
       THEN rl' = [rl EXCEPT !.calls = @ + 1, !.kind = "AssertionError"]
       ELSE IF format \notin {"pickle", "json", "yaml"}
       THEN rl' = [rl EXCEPT !.calls = @ + 1, !.return_value = ret_val,
                             !.history = Append(@, ret_val),
                             !.kind = "PythonComponentSystemException"]
       ELSE rl' = [rl EXCEPT !.calls = @ + 1, !.return_value = ret_val,
                             !.history = Append(@, ret_val),
                             !.artifacts = Append(@, << format, ret_val >>),
                             !.kind = "ok"]
    /\ UNCHANGED notRlVars

RlNext ==
    \/ RlNew
    \/ \E ret_val \in LogVals, format \in LogFormats :
          LogReturnValue(ret_val, format)

\* C21: a return value can be logged at most once per Run: whatever value
\* was logged first (None, 0, an empty string or tuple included), a later
\* log_return_value call records no further value and artifact, and the
\* value recorded first is kept.
C21_LoggedAtMostOnce ==
    rl.pc = "open" =>
        /\ Len(rl.history) <= 1
        /\ Len(rl.artifacts) <= 1
        /\ rl.history # << >> => rl.return_value = rl.history[1]

\* ------------------------------------------------------------------------
\* Component.to_frozen_registry (SpecFreeze)
\* ------------------------------------------------------------------------

\* The Components of the embedding program and their repos live at the
\* first addresses of the heaps; the objects freezing constructs follow.
Addr(c) == CASE c = "A" -> 1 [] c = "B" -> 2 [] c = "C" -> 3 [] OTHER -> 4
OrigAddrs == { Addr(c) : c \in Comps }
CompAt(a) == CHOOSE c \in Comps : Addr(c) = a

\* Every Component in a repo of its own, or all of them in one repo.
Layouts == {"own", "shared"}
RepoAddr(layout, c) == IF layout = "shared" THEN Addr("A") ELSE Addr(c)

RepoNames ==
    [a \in OrigAddrs |->
        CASE a = Addr("A") -> "repo_a" [] a = Addr("B") -> "repo_b"
          [] a = Addr("C") -> "repo_c" [] OTHER -> "repo_d"]
\* LocalRepo(name, file_path), repo.py:323-326.
OrigRepos ==
    [a \in OrigAddrs |->
        [identifier |-> RepoNames[a], type |-> "local", path |-> RepoNames[a],
         porcelain_repo |-> None]]

\* A dict keeps its items in insertion order: a sequence of << key, value >>.
\* d[k] = v
DictSet(d, k, v) ==
    IF \E i \in DOMAIN d : d[i][1] = k
    THEN [i \in DOMAIN d |-> IF d[i][1] = k THEN << k, v >> ELSE d[i]]
    ELSE Append(d, << k, v >>)
\* d.values()
DictValues(d) == [i \in DOMAIN d |-> d[i][2]]

\* The Component objects of graph g: add_dependency stores each dependency
\* under its name (component.py:247-249).
OrigComponent(g, layout, c) ==
    [identifier |-> Identifier(c, None),
     repo |-> RepoAddr(layout, c),
     file_path |-> << c >>,
     class_name |-> g.managed_cls[c],
     managed_cls |-> g.managed_cls[c],
     dependencies |-> [i \in DOMAIN g.dependencies[c] |->
                          << g.dependencies[c][i], Addr(g.dependencies[c][i]) >>]]
OrigHeap(g, layout) == [a \in OrigAddrs |-> OrigComponent(g, layout, CompAt(a))]

\* What git finds at the file of a Component.
GitStates ==
    {"clean", "ssh_remote", "not_git", "dirty", "no_remote", "not_github",
     "lookalike_remote", "heads_differ"}
\* One Component of the graph is in state git, the others are clean.
GitOf(call, c) == IF c = call.odd THEN call.git ELSE "clean"

\* A remote URL is a string: the sequence of its pieces.  The remote of
\* "lookalike_remote" is on a host whose name contains the text github.com.
RemoteUrl(git) ==
    CASE git = "ssh_remote" -> << "git@", "github.com", ":", "org/proj" >>
      [] git = "not_github" -> << "https://", "gitlab.com", "/", "org/proj" >>
      [] git = "lookalike_remote" ->
            << "https://", "github.com", ".example.org", "/", "org/proj" >>
      [] OTHER -> << "https://", "github.com", "/", "org/proj" >>
UnknownUrl == << "unknown_url" >>
\* "github.com" in url, repo.py:116: the text occurs somewhere in the string.
OnGithub(url) == \E i \in DOMAIN url : url[i] = "github.com"
\* url.replace("git@github.com:", "https://github.com/"), repo.py:259.
NormalizeUrl(url) ==
    IF Len(url) >= 3 /\ SubSeq(url, 1, 3) = << "git@", "github.com", ":" >>
    THEN << "https://", "github.com", "/" >> \o SubSeq(url, 4, Len(url))
    ELSE url
\* porcelain_repo.head()
HeadHash == "h1"

\* A failed check raises whatever force says.
AlwaysRaise(force) == TRUE

\* "if force: print(warning) else: raise BadGitStateException", repo.py
\* 112-115, 118-121, 129-133, 155-158 and 188-191.
MustRaise(force) == ~force

\* Repo._check_for_local_changes, repo.py:161-191.
CheckForLocalChanges(git, force) ==
    IF git # "dirty" THEN [kind |-> "ok", warnings |-> {}]
    ELSE IF MustRaise(force) THEN [kind |-> "BadGitStateException", warnings |-> {}]
    ELSE [kind |-> "ok", warnings |-> {"Commit all changes before freezing"}]

\* Repo._check_for_github_url, repo.py:106-122.
CheckForGithubUrl(git, force) ==
    LET found == git # "no_remote"
        url == IF found THEN RemoteUrl(git) ELSE UnknownUrl
        w1 == IF found THEN {} ELSE {"Could not find remote repo"}
        w2 == IF OnGithub(url) THEN {} ELSE {"Remote must be on github"}
    IN  IF ~found /\ MustRaise(force)
        THEN [kind |-> "BadGitStateException", url |-> url, warnings |-> {}]
        ELSE IF ~OnGithub(url) /\ MustRaise(force)
        THEN [kind |-> "BadGitStateException", url |-> url, warnings |-> w1]
        ELSE [kind |-> "ok", url |-> url, warnings |-> w1 \cup w2]

\* Repo._check_remote_branch_status, repo.py:124-159.
CheckRemoteBranchStatus(git, force) ==
    IF git = "no_remote"
    THEN IF MustRaise(force)
         THEN [kind |-> "BadGitStateException", version |-> None, warnings |-> {}]
         ELSE [kind |-> "ok", version |-> "unknown_version",
               warnings |-> {"Unable to get remote repo"}]
    ELSE IF git = "heads_differ"
    THEN IF MustRaise(force)
         THEN [kind |-> "BadGitStateException", version |-> None, warnings |-> {}]
         ELSE [kind |-> "ok", version |-> HeadHash,
               warnings |-> {"Push your changes before freezing"}]
    ELSE [kind |-> "ok", version |-> HeadHash, warnings |-> {}]

\* Repo.get_version_from_git, repo.py:71-104.  porcelain_repo is what the
\* call leaves in the attribute of the repo: a check that raises leaves the
\* discovered repository there.
GetVersionFromGit(repo, git, force) ==
    LET local == CheckForLocalChanges(git, force)
        github == CheckForGithubUrl(git, force)
        status == CheckRemoteBranchStatus(git, force)
        failed(kind, warnings, porcelain_repo) ==
            [kind |-> kind, url |-> UnknownUrl, version |-> None,
             warnings |-> warnings, porcelain_repo |-> porcelain_repo]
    IN  IF git = "not_git"
        THEN failed("BadGitStateException", {}, repo.porcelain_repo)
        ELSE IF local.kind # "ok"
        THEN failed(local.kind, local.warnings, "discovered")
        ELSE IF github.kind # "ok"
        THEN failed(github.kind, local.warnings \cup github.warnings, "discovered")
        ELSE IF status.kind # "ok"
        THEN failed(status.kind, local.warnings \cup github.warnings, "discovered")
        ELSE [kind |-> "ok", url |-> github.url, version |-> status.version,
              warnings |-> local.warnings \cup github.warnings \cup status.warnings,
              porcelain_repo |-> None]

\* Repo.get_prefixed_path_from_repo_root, repo.py:193-227: the directories
\* between the root of the git repo and the file, then the file's name.
PrefixedPath(file_path) == << "pkg" >> \o file_path

\* The Component is rewritten where it stands.
InPlace(heap, orig) == orig

\* clone = Component(...), component.py:292-299: a new object.
CloneAddr(heap, orig) == Len(heap) + 1

\* heap[a] = obj, for a the next free address or an address in use.
Store(heap, a, obj) ==
    IF a \in DOMAIN heap THEN [heap EXCEPT ![a] = obj] ELSE Append(heap, obj)

FrzInit ==
    /\ frz = [pc |-> "idle"]
    /\ fheap = << >>
    /\ frepos = << >>
    /\ fstack = << >>
    /\ fwarn = {}

FrzTop == fstack[Len(fstack)]
Frame(orig) == [orig |-> orig, pc |-> "version", clone |-> 0, items |-> << >>, i |-> 1]

\* component.to_frozen_registry(force), component.py:382-383.
FreezeCall(g, layout, root, force, odd, git) ==
    /\ frz.pc = "idle"
    /\ frz' = [pc |-> "dag", graph |-> g.name, dependencies |-> g.dependencies,
               managed_cls |-> g.managed_cls, layout |-> layout, root |-> root,
               force |-> force, odd |-> odd, git |-> git, kind |-> None,
               versioned |-> 0, registry |-> None]
    /\ fheap' = OrigHeap(g, layout)
    /\ frepos' = OrigRepos
    /\ fstack' = << Frame(Addr(root)) >>
    /\ fwarn' = {}
    /\ UNCHANGED notFrzVars

\* component.py:284-299: the version from git, the new identifier, the
\* clone with its GitHubRepo.
FreezeVersion ==
    /\ frz.pc = "dag"
    /\ FrzTop.pc = "version"
    /\ LET self == fheap[FrzTop.orig]
           name == FromStr(IdStr(self.identifier)).name
           r == GetVersionFromGit(frepos[self.repo], GitOf(frz, name), frz.force)
           repos1 == [frepos EXCEPT ![self.repo].porcelain_repo = r.porcelain_repo]
           github_repo == [identifier |-> frepos[self.repo].identifier,
                           type |-> "github", url |-> NormalizeUrl(r.url),
                           porcelain_repo |-> None]
           a == CloneAddr(fheap, FrzTop.orig)
           clone == [identifier |-> Identifier(name, r.version),
                     repo |-> Len(frepos) + 1,
                     file_path |-> PrefixedPath(self.file_path),
                     class_name |-> self.class_name,
                     managed_cls |-> self.managed_cls,
                     dependencies |-> << >>]
       IN  /\ fwarn' = fwarn \cup { << name, w >> : w \in r.warnings }
           /\ IF r.kind # "ok"
              THEN /\ frz' = [frz EXCEPT !.pc = "raised", !.kind = r.kind]
                   /\ frepos' = repos1
                   /\ fstack' = << >>
                   /\ UNCHANGED fheap
              ELSE /\ frepos' = Append(repos1, github_repo)
                   /\ fheap' = Store(fheap, a, clone)
                   /\ fstack' = [fstack EXCEPT ![Len(fstack)] =
                                    [@ EXCEPT !.pc = "deps", !.clone = a,
                                              !.items = self.dependencies]]
                   /\ UNCHANGED frz
    /\ UNCHANGED notFrzVars

\* component.py:300-303: the next dependency is frozen by a nested call.
FreezeDep ==
    /\ frz.pc = "dag"
    /\ FrzTop.pc = "deps"
    /\ FrzTop.i <= Len(FrzTop.items)
    /\ IF Len(fstack) >= RecursionLimit
       THEN /\ frz' = [frz EXCEPT !.pc = "raised", !.kind = "RecursionError"]
            /\ fstack' = << >>
       ELSE /\ fstack' = Append(fstack, Frame(FrzTop.items[FrzTop.i][2]))
            /\ UNCHANGED frz
    /\ UNCHANGED << fheap, frepos, fwarn >>
    /\ UNCHANGED notFrzVars

\* component.py:304-305: the nested call returns its clone, the caller's
\* clone takes it as a dependency under the same attribute name.
FreezeDepReturn ==
    /\ frz.pc = "dag"
    /\ FrzTop.pc = "deps"
    /\ FrzTop.i > Len(FrzTop.items)
    /\ Len(fstack) > 1
    /\ LET caller == fstack[Len(fstack) - 1]
           attr_name == caller.items[caller.i][1]
       IN  /\ fheap' = [fheap EXCEPT ![caller.clone].dependencies =
                           DictSet(@, attr_name, FrzTop.clone)]
           /\ fstack' = [SubSeq(fstack, 1, Len(fstack) - 1)
                            EXCEPT ![Len(fstack) - 1].i = @ + 1]
    /\ UNCHANGED << frz, frepos, fwarn >>
    /\ UNCHANGED notFrzVars

\* component.py:383: versioned = self._get_versioned_dependency_dag(force).
FreezeDagReturn ==
    /\ frz.pc = "dag"
    /\ FrzTop.pc = "deps"
    /\ FrzTop.i > Len(FrzTop.items)
    /\ Len(fstack) = 1
    /\ frz' = [frz EXCEPT !.pc = "versioned", !.versioned = FrzTop.clone]
    /\ fstack' = << >>
    /\ UNCHANGED << fheap, frepos, fwarn >>
    /\ UNCHANGED notFrzVars

\* component.dependencies.values() of the objects of the heap.
HeapDeps(heap) == [a \in DOMAIN heap |-> DictValues(heap[a].dependencies)]

\* Component.to_spec(flatten=False) of an object of the heap.
HeapToSpec(heap, repos, a) ==
    IdStr(heap[a].identifier) :>
        [repo |-> repos[heap[a].repo].identifier,
         file_path |-> heap[a].file_path,
         class_name |-> heap[a].class_name,
         dependencies |-> { << heap[a].dependencies[i][1],
                               IdStr(heap[heap[a].dependencies[i][2]].identifier) >> :
                               i \in DOMAIN heap[a].dependencies }]

\* The loop of Component.to_registry, component.py:351-380, with its
\* default arguments (recurse=True, force=False) over objects of the heap.
RECURSIVE HeapWriteAll(_, _, _, _)
HeapWriteAll(reg, order, heap, repos) ==
    IF order = << >> THEN [kind |-> "ok", registry |-> reg]
    ELSE LET c == Head(order)
             repo == repos[heap[c].repo]
             existing_c_spec == GetComponentSpecs(reg, heap[c].identifier.name,
                                                  heap[c].identifier.version)
             reg1 == [reg EXCEPT !.components = Update(@, HeapToSpec(heap, repos, c))]
             reg2 == [reg1 EXCEPT !.repos = Update(@, RepoToSpec(repo))]
         IN  IF /\ DOMAIN existing_c_spec # {}
                /\ existing_c_spec # HeapToSpec(heap, repos, c)
             THEN [kind |-> "RegistryException", registry |-> reg]
             ELSE IF repo.identifier \in DOMAIN reg1.repos
             THEN IF reg1.repos[repo.identifier] # RepoToSpec(repo)
                  THEN \* the message reads c.repo.name, component.py:373
                       [kind |-> "AttributeError", registry |-> reg1]
                  ELSE HeapWriteAll(reg1, Tail(order), heap, repos)
             ELSE HeapWriteAll(reg2, Tail(order), heap, repos)

\* component.py:384: return versioned.to_registry().
FreezeToRegistry ==
    /\ frz.pc = "versioned"
    /\ \E order \in Orders(Reach(HeapDeps(fheap), << frz.versioned >>,
                                 {frz.versioned})) :
          LET r == HeapWriteAll(EmptyRegistry, order, fheap, frepos) IN
          frz' = [frz EXCEPT !.pc = IF r.kind = "ok" THEN "returned" ELSE "raised",
                             !.kind = r.kind,
                             !.registry = IF r.kind = "ok" THEN r.registry ELSE None]
    /\ UNCHANGED << fheap, frepos, fstack, fwarn >>
    /\ UNCHANGED notFrzVars

FrzNext ==
    \/ \E g \in Graphs, layout \in Layouts, root \in Roots, force \in BOOLEAN,
          odd \in Comps, git \in GitStates :
          FreezeCall(g, layout, root, force, odd, git)
    \/ FreezeVersion
    \/ FreezeDep
    \/ FreezeDepReturn
    \/ FreezeDagReturn
    \/ FreezeToRegistry

\* ------------------------------------------------------------------------
\* Claims about freezing (SpecFreeze)
\* ------------------------------------------------------------------------

\* Repo.to_spec of a LocalRepo, repo.py:328-331.
LocalRepoToSpec(r) == r.identifier :> [type |-> r.type, path |-> r.path]

\* The Components reachable from the frozen root.
FrozenGraph ==
    IF frz.versioned = 0 THEN {}
    ELSE Reach(HeapDeps(fheap), << frz.versioned >>, {frz.versioned})

FreezeEnded == frz.pc \in {"versioned", "returned", "raised"}

\* C18: freezing never changes the original graph: once
\* _get_versioned_dependency_dag / to_frozen_registry has returned or
\* raised, every original Component has the identifier, repo, file path and
\* dependency mapping it had before, and no Component of the frozen graph
\* (nor any dependency of a Component built on the way) is an original one.
C18_OriginalsUntouched ==
    FreezeEnded =>
        /\ \A c \in Comps :
              /\ fheap[Addr(c)] =
                    OrigComponent([dependencies |-> frz.dependencies,
                                   managed_cls |-> frz.managed_cls], frz.layout, c)
              /\ LocalRepoToSpec(frepos[fheap[Addr(c)].repo]) =
                    LocalRepoToSpec(OrigRepos[RepoAddr(frz.layout, c)])
        /\ FrozenGraph \cap OrigAddrs = {}
        /\ \A a \in DOMAIN fheap \ OrigAddrs :
              \A i \in DOMAIN fheap[a].dependencies :
                 fheap[a].dependencies[i][2] \notin OrigAddrs

\* C18 happens: the chain A -> B -> D was frozen from A and the registry
\* returned; the frozen A has its frozen dependency.
C18_Witness ==
    /\ frz.pc = "returned"
    /\ frz.graph = "chain"
    /\ frz.root = "A"
    /\ Len(fheap) = Cardinality(Comps) + 3
    /\ fheap[frz.versioned].dependencies # << >>
    /\ fheap[frz.versioned].identifier.version = HeadHash

\* The components to_frozen_registry visits from the root.
FreezeClosure == ReachableFrom(frz.dependencies, {frz.root})

\* C30: freezing preserves sharing: in the frozen graph every component
\* of the original closure, also one reachable through several dependents,
\* corresponds to exactly one Component.
C30_FreezePreservesSharing ==
    frz.pc \in {"versioned", "returned"} =>
        /\ \A a \in FrozenGraph, b \in FrozenGraph :
              fheap[a].identifier.name = fheap[b].identifier.name => a = b
        /\ Cardinality(FrozenGraph) = Cardinality(FreezeClosure)

\* The host of a remote URL: what stands between "https://" or "git@" and
\* the first "/" or ":".
HostOf(url) ==
    LET stop == CHOOSE i \in 2..Len(url) :
                    /\ url[i] \in {"/", ":"}
                    /\ \A k \in 2..(i - 1) : url[k] \notin {"/", ":"}
    IN SubSeq(url, 2, stop - 1)
OnExpectedHost(git) == git # "no_remote" /\ HostOf(RemoteUrl(git)) = << "github.com" >>

\* The four repo-state problems: not a git repo, remote not on the expected
\* host, uncommitted local changes, local and remote heads that disagree.
GitProblems ==
    {"not_git", "dirty", "heads_differ"} \cup { g \in GitStates : ~OnExpectedHost(g) }
AllChecksPass == \A c \in FreezeClosure : GitOf(frz, c) \notin GitProblems

\* C19: with force=False, to_frozen_registry returns a registry only if
\* every component of the graph is in a git repo whose remote is on the
\* expected host, has no uncommitted changes and has agreeing local and
\* remote heads; if one of these fails for any component the call raises
\* and returns no registry.
C19_StrictFreeze ==
    (frz.pc \in {"returned", "raised"} /\ ~frz.force) =>
        /\ frz.pc = "returned" => (AllChecksPass /\ frz.kind = "ok")
        /\ ~AllChecksPass =>
              /\ frz.pc = "raised"
              /\ frz.kind = "BadGitStateException"
              /\ frz.registry = None

\* C20 as stated: with force=True none of the four problems (not a git
\* repo, remote not on the expected host, uncommitted changes, heads that
\* disagree) aborts freezing: the call does not raise BadGitStateException
\* and each problem of a visited component is printed as a warning.
C20_ForceDowngradesAll ==
    (frz.pc \in {"returned", "raised"} /\ frz.force) =>
        /\ frz.kind # "BadGitStateException"
        /\ \A c \in FreezeClosure :
              GitOf(frz, c) \in GitProblems => \E w \in fwarn : w[1] = c

\* The problems get_version_from_git tests with force in hand.
Downgradable == {"dirty", "no_remote", "not_github", "heads_differ"}

\* C20 as amended: with force=True, uncommitted changes, a missing remote,
\* a remote whose URL lacks "github.com" and disagreeing heads do not make
\* get_version_from_git raise: each prints a warning for the component and
\* the clone carries the best-effort values ("unknown_version" and
\* "unknown_url" without a remote, else the local head and the URL found);
\* BadGitStateException is raised only for a file that is in no git repo.
C20_ForceDowngradesThree ==
    (frz.pc # "idle" /\ frz.force) =>
        /\ frz.kind = "BadGitStateException" =>
              (frz.git = "not_git" /\ frz.odd \in FreezeClosure)
        /\ (frz.pc \in {"versioned", "returned"} /\ frz.odd \in FreezeClosure
             /\ frz.git \in Downgradable) =>
              \E w \in fwarn : w[1] = frz.odd
        /\ \A a \in DOMAIN fheap \ OrigAddrs :
              LET git == GitOf(frz, fheap[a].identifier.name) IN
              /\ git # "not_git"
              /\ git \in Downgradable =>
                    \E w \in fwarn : w[1] = fheap[a].identifier.name
              /\ fheap[a].identifier.version =
                    IF git = "no_remote" THEN "unknown_version" ELSE HeadHash
              /\ frepos[fheap[a].repo].url =
                    IF git = "no_remote" THEN UnknownUrl
                    ELSE NormalizeUrl(RemoteUrl(git))

\* C20 happens: the chain was frozen from A with force=True, B has no
\* remote; the registry was returned and holds B at "unknown_version".
C20_Witness ==
    /\ frz.pc = "returned"
    /\ frz.force
    /\ frz.graph = "chain"
    /\ frz.root = "A"
    /\ frz.odd = "B"
    /\ frz.git = "no_remote"
    /\ << "B", "unknown_version" >> \in DOMAIN frz.registry.components
    /\ << "B", "Unable to get remote repo" >> \in fwarn

RegIdle ==
    /\ registry = EmptyRegistry
    /\ last = [op |-> None]

LoadIdle == load = [pc |-> "idle"]

DepIdle == dl = [pc |-> "idle"]

FrzIdle ==
    /\ frz = [pc |-> "idle"]
    /\ fheap = << >>
    /\ frepos = << >>
    /\ fstack = << >>
    /\ fwarn = {}

RlIdle == rl = [pc |-> "idle"]

PsIdle ==
    /\ pheap = << >>
    /\ psrc = << >>
    /\ pobj = << >>
    /\ pupdates = 0
    /\ plast = [op |-> None]

\* Components in use; the registry and the loader untouched.
InitInst == InstInit /\ RegIdle /\ LoadIdle /\ PsIdle /\ DepIdle /\ FrzIdle /\ RlIdle

\* A registry in use; no component running, no load under way.
InitReg == InstIdle /\ RegInit /\ LoadIdle /\ PsIdle /\ DepIdle /\ FrzIdle /\ RlIdle

\* A load under way; no component running, the written registry untouched.
InitLoad == InstIdle /\ RegIdle /\ LoadInit /\ PsIdle /\ DepIdle /\ FrzIdle /\ RlIdle

\* ParameterSets in use; nothing else.
InitParams == InstIdle /\ RegIdle /\ LoadIdle /\ PsInit /\ DepIdle /\ FrzIdle /\ RlIdle

\* One to_dependency_list call; nothing else.
InitDeps == InstIdle /\ RegIdle /\ LoadIdle /\ PsIdle /\ DepInit /\ FrzIdle /\ RlIdle

\* SpecFreeze: to_frozen_registry on a graph of Components.
InitFreeze == InstIdle /\ RegIdle /\ LoadIdle /\ PsIdle /\ DepIdle /\ FrzInit /\ RlIdle

\* One Run whose return value is logged; nothing else.
InitRunLog ==
    InstIdle /\ RegIdle /\ LoadIdle /\ PsIdle /\ DepIdle /\ FrzIdle /\ RlInit

SpecInst == InitInst /\ [][InstNext]_vars

SpecReg == InitReg /\ [][RegNext]_vars

SpecLoad == InitLoad /\ [][LoadNext]_vars

SpecParams == InitParams /\ [][PsNext]_vars

SpecDeps == InitDeps /\ [][DepNext]_vars

SpecFreeze == InitFreeze /\ [][FrzNext]_vars

SpecRunLog == InitRunLog /\ [][RlNext]_vars

====
